---- MODULE Spec2Model ----
(***************************************************************************)
(* Verification model of neutron_lib: the policy lifecycle wrapper         *)
(* (neutron_lib/policy.py) and the attribute validators and converters     *)
(* (neutron_lib/api/v2/attributes.py).                                     *)
(***************************************************************************)
EXTENDS Integers, Sequences, FiniteSets, TLC

(***************************************************************************)
(* Part 1 - policy.py.  The module-level global POLICY_ENFORCER, the       *)
(* Enforcer objects built so far, and the caller threads, each stepping    *)
(* through the statements of the function it called.  The oslo.policy      *)
(* engine is an external collaborator: load_rules loads some rule set and  *)
(* enforce returns some boolean, both chosen nondeterministically.         *)
(***************************************************************************)

\* Bound of the model: how many calls the callers make in one run.
MaxCalls == 4

\* The caller threads of the host process.
Threads == {1, 2}

\* policy.py:23 - the value None of the global.
None == 0

ADMIN_CTX_POLICY == "context_is_admin"
ADVSVC_CTX_POLICY == "context_is_advsvc"

\* Rule names a policy file may define.
RuleNames == {ADMIN_CTX_POLICY, ADVSVC_CTX_POLICY}

\* The rule sets the policy files of a deployment may hold.
PolicyFiles == SUBSET RuleNames

\* Request contexts handed to check_is_admin / check_is_advsvc.
Contexts == {"ctx_admin", "ctx_member"}

\* context.to_dict(): the credentials mapping derived from a context.
to_dict(c) ==
    [user_id |-> c, is_admin |-> (c = "ctx_admin")]

Ops == {"init", "reset", "refresh", "check_is_admin", "check_is_advsvc"}

NoCall == [made |-> FALSE]
NoEntry == [enf |-> None, built |-> 0, loads |-> 0, active |-> {}]

VARIABLES
    POLICY_ENFORCER, \* policy.py:23 the global: None or an engine id
    engines,         \* the Enforcer objects constructed so far (a sequence)
    policyFile,      \* the rules held by the policy files load_rules reads
    useLock,         \* whether the callers serialize their calls by one lock
    lock,            \* the holder of the callers' lock, or None
    pc,              \* per thread: the statement it is about to execute
    op,              \* per thread: the function the caller invoked
    context,         \* per thread: the context argument of a check call
    entry,           \* per thread: the global state when a serialized call began
    credentials,     \* per thread: local variable of check_is_*
    retval,          \* per thread: the value returned by the call
    enforceCall,     \* per thread: the enforce call made by this call, if any
    seen,            \* every kind of unsound observation made so far
    calls,           \* how many calls have been made
    kvp_list,        \* part 3: the argument of convert_kvp_list_to_dict
    kvp_pc,          \* the statement it is about to execute
    kvp_i,           \* the place of the for loop in kvp_list
    kvp_map,         \* local variable kvp_map: key -> set of values
    kvp_out,         \* the outcome of the call
    vd_in,           \* part 2: the data argument as passed by the caller
    vd_data,         \* the data argument, mutated in place by converters
    vd_specs,        \* the key_specs argument: <<key, key spec>> in iteration order
    vd_pc,           \* the statement _validate_dict is about to execute
    vd_todo,         \* the list the for loop of line 458 iterates over
    vd_out,          \* the outcome of the call
    vd_log,          \* the converters and validators run so far
    mac_data,        \* part 4: the argument of _validate_mac_address
    mac_out,         \* the outcome of the call
    sn_data,         \* part 5: the argument of _validate_subnet
    sn_out,          \* the outcome of _validate_subnet
    ws_out           \* the outcome of _validate_no_whitespace on sn_data

policyVars == <<POLICY_ENFORCER, engines, policyFile, useLock, lock, pc, op, context,
                entry, credentials, retval, enforceCall, seen, calls>>
kvpVars == <<kvp_list, kvp_pc, kvp_i, kvp_map, kvp_out>>
vdVars == <<vd_in, vd_data, vd_specs, vd_pc, vd_todo, vd_out, vd_log>>
macVars == <<mac_data, mac_out>>
snVars == <<sn_data, sn_out, ws_out>>
vars == <<policyVars, kvpVars, vdVars, macVars, snVars>>

\* An Enforcer right after policy.Enforcer(conf, policy_file=...).
NewEngine == [loads |-> 0, cleared |-> FALSE, rules |-> {}]

\* Truthiness of the global: an Enforcer object is truthy, None is not.
Truthy(e) == e # None

\* How many times load_rules has run, over all engines.
RECURSIVE SumLoads(_)
SumLoads(es) == IF es = << >> THEN 0 ELSE Head(es).loads + SumLoads(Tail(es))
TotalLoads == SumLoads(engines)

\* Engines that were constructed and never cleared.
ActiveEngines == {e \in DOMAIN engines : ~engines[e].cleared}

\* Where a call of each function starts.
FirstLine(o) ==
    CASE o = "init" -> "init40"
      [] o = "reset" -> "reset31"
      [] o = "refresh" -> "reset31"
      [] o = "check_is_admin" -> "init40"
      [] o = "check_is_advsvc" -> "init40"

\* Where control goes when reset() returns: refresh() goes on to init().
AfterReset(o) == IF o = "refresh" THEN "init40" ELSE "done"

\* Where control goes when init() returns: the checks go on to line 55/65.
AfterInit(o) ==
    IF o \in {"check_is_admin", "check_is_advsvc"} THEN "check55" ELSE "done"

\* Variant in which check_is_advsvc looks up the admin rule.
RuleOf_admin(o) == ADMIN_CTX_POLICY

\* The rule a check function looks up.
RuleOf(o) == IF o = "check_is_admin" THEN ADMIN_CTX_POLICY ELSE ADVSVC_CTX_POLICY

PolicyInit ==
    /\ POLICY_ENFORCER = None
    /\ engines = << >>
    /\ policyFile \in PolicyFiles
    /\ useLock \in BOOLEAN
    /\ lock = None
    /\ pc = [t \in Threads |-> "idle"]
    /\ op = [t \in Threads |-> "none"]
    /\ context = [t \in Threads |-> "none"]
    /\ entry = [t \in Threads |-> NoEntry]
    /\ credentials = [t \in Threads |-> "none"]
    /\ retval = [t \in Threads |-> "none"]
    /\ enforceCall = [t \in Threads |-> NoCall]
    /\ seen = {}
    /\ calls = 0

\* A caller invokes one of the five functions (taking the callers' lock first
\* when the host serializes the calls).
Call(t) ==
    /\ pc[t] = "idle"
    /\ calls < MaxCalls
    /\ calls' = calls + 1
    /\ useLock => lock = None
    /\ lock' = IF useLock THEN t ELSE lock
    /\ \E o \in Ops :
         /\ op' = [op EXCEPT ![t] = o]
         /\ pc' = [pc EXCEPT ![t] = FirstLine(o)]
         /\ \E c \in Contexts :
              context' = [context EXCEPT ![t] =
                            IF o \in {"check_is_admin", "check_is_advsvc"}
                            THEN c ELSE "none"]
    /\ entry' = [entry EXCEPT ![t] =
                    IF useLock
                    THEN [enf |-> POLICY_ENFORCER, built |-> Len(engines),
                          loads |-> TotalLoads, active |-> ActiveEngines]
                    ELSE NoEntry]
    /\ UNCHANGED <<POLICY_ENFORCER, engines, policyFile, useLock,
                   credentials, retval, enforceCall, seen>>

\* policy.py:31  if POLICY_ENFORCER:
reset31(t) ==
    /\ pc[t] = "reset31"
    /\ pc' = [pc EXCEPT ![t] =
                IF Truthy(POLICY_ENFORCER) THEN "reset32" ELSE AfterReset(op[t])]
    /\ UNCHANGED <<POLICY_ENFORCER, engines, policyFile, useLock, lock, op, context, entry,
                   credentials, retval, enforceCall, seen, calls>>

\* policy.py:32  POLICY_ENFORCER.clear()
\* The global is read again; None has no clear() (AttributeError).
reset32(t) ==
    /\ pc[t] = "reset32"
    /\ IF POLICY_ENFORCER = None
       THEN /\ pc' = [pc EXCEPT ![t] = "raised"]
            /\ UNCHANGED engines
       ELSE /\ engines' = [engines EXCEPT ![POLICY_ENFORCER] =
                              [@ EXCEPT !.cleared = TRUE, !.rules = {}]]
            /\ pc' = [pc EXCEPT ![t] = "reset33"]
    /\ UNCHANGED <<POLICY_ENFORCER, policyFile, useLock, lock, op, context, entry,
                   credentials, retval, enforceCall, seen, calls>>

\* Variant of line 33 that forgets to drop the reference.
reset33_keep(t) ==
    /\ pc[t] = "reset33"
    /\ pc' = [pc EXCEPT ![t] = AfterReset(op[t])]
    /\ UNCHANGED <<POLICY_ENFORCER, engines, policyFile, useLock, lock, op, context,
                   entry, credentials, retval, enforceCall, seen, calls>>

\* policy.py:33  POLICY_ENFORCER = None
reset33(t) ==
    /\ pc[t] = "reset33"
    /\ POLICY_ENFORCER' = None
    /\ pc' = [pc EXCEPT ![t] = AfterReset(op[t])]
    /\ UNCHANGED <<engines, policyFile, useLock, lock, op, context, entry,
                   credentials, retval, enforceCall, seen, calls>>

\* Variant of line 40 without the guard: init() always builds an engine.
init40_unguarded(t) ==
    /\ pc[t] = "init40"
    /\ pc' = [pc EXCEPT ![t] = "init41"]
    /\ UNCHANGED <<POLICY_ENFORCER, engines, policyFile, useLock, lock, op, context,
                   entry, credentials, retval, enforceCall, seen, calls>>

\* policy.py:40  if not POLICY_ENFORCER:
init40(t) ==
    /\ pc[t] = "init40"
    /\ pc' = [pc EXCEPT ![t] =
                IF ~Truthy(POLICY_ENFORCER) THEN "init41" ELSE AfterInit(op[t])]
    /\ UNCHANGED <<POLICY_ENFORCER, engines, policyFile, useLock, lock, op, context, entry,
                   credentials, retval, enforceCall, seen, calls>>

\* policy.py:41  POLICY_ENFORCER = policy.Enforcer(conf, policy_file=policy_file)
init41(t) ==
    /\ pc[t] = "init41"
    /\ engines' = Append(engines, NewEngine)
    /\ POLICY_ENFORCER' = Len(engines) + 1
    /\ pc' = [pc EXCEPT ![t] = "init42"]
    /\ UNCHANGED <<policyFile, useLock, lock, op, context, entry,
                   credentials, retval, enforceCall, seen, calls>>

\* Variant of line 42 that never loads the rules.
init42_noload(t) ==
    /\ pc[t] = "init42"
    /\ pc' = [pc EXCEPT ![t] = AfterInit(op[t])]
    /\ UNCHANGED <<POLICY_ENFORCER, engines, policyFile, useLock, lock, op, context,
                   entry, credentials, retval, enforceCall, seen, calls>>

\* policy.py:42  POLICY_ENFORCER.load_rules(True)
\* The global is read again; the engine loads whatever the policy files hold.
init42(t) ==
    /\ pc[t] = "init42"
    /\ IF POLICY_ENFORCER = None
       THEN /\ pc' = [pc EXCEPT ![t] = "raised"]
            /\ UNCHANGED engines
       ELSE /\ engines' = [engines EXCEPT ![POLICY_ENFORCER] =
                               [@ EXCEPT !.loads = @ + 1, !.rules = policyFile]]
            /\ pc' = [pc EXCEPT ![t] = AfterInit(op[t])]
    /\ UNCHANGED <<POLICY_ENFORCER, policyFile, useLock, lock, op, context, entry,
                   credentials, retval, enforceCall, seen, calls>>

\* policy.py:55 / 65  credentials = context.to_dict()
check55(t) ==
    /\ pc[t] = "check55"
    /\ credentials' = [credentials EXCEPT ![t] = to_dict(context[t])]
    /\ pc' = [pc EXCEPT ![t] = "check56"]
    /\ UNCHANGED <<POLICY_ENFORCER, engines, policyFile, useLock, lock, op, context, entry,
                   retval, enforceCall, seen, calls>>

\* What a thread finds behind the global after its own init() returned.
Observation ==
    IF POLICY_ENFORCER = None THEN "null"
    ELSE IF engines[POLICY_ENFORCER].cleared THEN "cleared"
    ELSE IF engines[POLICY_ENFORCER].loads = 0 THEN "partial"
    ELSE "ok"

\* policy.py:56-57 / 66-67
\*   if ADMIN_CTX_POLICY not in POLICY_ENFORCER.rules: return False
check56(t) ==
    /\ pc[t] = "check56"
    /\ seen' = seen \cup ({Observation} \ {"ok"})
    /\ IF POLICY_ENFORCER = None
       THEN /\ pc' = [pc EXCEPT ![t] = "raised"]
            /\ UNCHANGED retval
       ELSE IF RuleOf(op[t]) \notin engines[POLICY_ENFORCER].rules
       THEN /\ retval' = [retval EXCEPT ![t] = FALSE]
            /\ pc' = [pc EXCEPT ![t] = "done"]
       ELSE /\ pc' = [pc EXCEPT ![t] = "check58"]
            /\ UNCHANGED retval
    /\ UNCHANGED <<POLICY_ENFORCER, engines, policyFile, useLock, lock, op, context, entry,
                   credentials, enforceCall, calls>>

\* policy.py:58 / 68
\*   return POLICY_ENFORCER.enforce(ADMIN_CTX_POLICY, credentials, credentials)
check58(t) ==
    /\ pc[t] = "check58"
    /\ seen' = seen \cup ({Observation} \ {"ok"})
    /\ IF POLICY_ENFORCER = None
       THEN /\ pc' = [pc EXCEPT ![t] = "raised"]
            /\ UNCHANGED <<retval, enforceCall>>
       ELSE /\ \E r \in BOOLEAN :
                 /\ enforceCall' = [enforceCall EXCEPT ![t] =
                        [made |-> TRUE, engine |-> POLICY_ENFORCER,
                         rule |-> RuleOf(op[t]), creds |-> credentials[t],
                         target |-> credentials[t], result |-> r]]
                 /\ retval' = [retval EXCEPT ![t] = r]
            /\ pc' = [pc EXCEPT ![t] = "done"]
    /\ UNCHANGED <<POLICY_ENFORCER, engines, policyFile, useLock, lock, op, context, entry,
                   credentials, calls>>

\* The call returns to (or the exception propagates to) the caller, which
\* releases the lock if it took one.
Return(t) ==
    /\ pc[t] \in {"done", "raised"}
    /\ pc' = [pc EXCEPT ![t] = "idle"]
    /\ lock' = IF lock = t THEN None ELSE lock
    /\ op' = [op EXCEPT ![t] = "none"]
    /\ context' = [context EXCEPT ![t] = "none"]
    /\ entry' = [entry EXCEPT ![t] = NoEntry]
    /\ credentials' = [credentials EXCEPT ![t] = "none"]
    /\ retval' = [retval EXCEPT ![t] = "none"]
    /\ enforceCall' = [enforceCall EXCEPT ![t] = NoCall]
    /\ UNCHANGED <<POLICY_ENFORCER, engines, policyFile, useLock, seen, calls>>

(***************************************************************************)
(* Part 2 - attributes.py: _validate_dict, _validate_dict_item, the        *)
(* validators registry and the validators and converters the schemas of    *)
(* the model use.  Python values are tagged tuples; a dict is             *)
(* <<"dict", f>> with f a function from its keys to values; a returned    *)
(* message is <<"msg", kind, ...>>.                                        *)
(***************************************************************************)

NoneV == <<"none">>
StrV(s) == <<"str", s>>
IntV(n) == <<"int", n>>
BoolV(b) == <<"bool", b>>
ListV(l) == <<"list", l>>
DictV(f) == <<"dict", f>>
FnV(name) == <<"function", name>>
SetV(vs) == <<"set", vs>>

IsDict(v) == v[1] = "dict"
IsStr(v) == v[1] = "str"
IsInt(v) == v[1] = "int"
Keys(d) == DOMAIN d[2]

\* Outcome of a call: a returned value or a raised exception.
Ret(v) == <<"return", v>>
Raise(exc, detail) == <<"raise", exc, detail>>
IsRaise(o) == o[1] = "raise"

\* dict.get(key): the value, or None when the key is absent.
Get(d, k) == IF k \in Keys(d) THEN d[2][k] ELSE NoneV

\* data[key] = value
SetItem(d, k, v) ==
    DictV([x \in Keys(d) \cup {k} |-> IF x = k THEN v ELSE d[2][x]])

\* str.startswith
StartsWith(str, prefix) ==
    /\ Len(str) >= Len(prefix)
    /\ SubSeq(str, 1, Len(prefix)) = prefix

\* The character at place i of a string.
Char(str, i) == SubSeq(str, i, i)

\* The characters str.strip() removes.
Whitespace == {" ", "\t", "\n"}

RECURSIVE LStrip(_)
LStrip(str) ==
    IF str # "" /\ Char(str, 1) \in Whitespace
    THEN LStrip(SubSeq(str, 2, Len(str)))
    ELSE str

RECURSIVE RStrip(_)
RStrip(str) ==
    IF str # "" /\ Char(str, Len(str)) \in Whitespace
    THEN RStrip(SubSeq(str, 1, Len(str) - 1))
    ELSE str

\* str.strip()
Strip(str) == RStrip(LStrip(str))

Digits == {"0", "1", "2", "3", "4", "5", "6", "7", "8", "9"}

DigitVal(c) ==
    CASE c = "0" -> 0 [] c = "1" -> 1 [] c = "2" -> 2 [] c = "3" -> 3
      [] c = "4" -> 4 [] c = "5" -> 5 [] c = "6" -> 6 [] c = "7" -> 7
      [] c = "8" -> 8 [] c = "9" -> 9

RECURSIVE DigitsVal(_)
DigitsVal(cs) ==
    IF cs = "" THEN 0
    ELSE DigitsVal(SubSeq(cs, 1, Len(cs) - 1)) * 10 + DigitVal(Char(cs, Len(cs)))

AllDigits(cs) == cs # "" /\ \A i \in 1..Len(cs) : Char(cs, i) \in Digits

\* The outcome of a call still running.
Pending == <<"pending">>

\* int(data): the integer, or the exception int() raises.
PyInt(v) ==
    IF IsInt(v) THEN v
    ELSE IF IsStr(v)
    THEN LET cs == Strip(v[2])
             signed == cs # "" /\ Char(cs, 1) \in {"-", "+"}
             body == IF signed THEN SubSeq(cs, 2, Len(cs)) ELSE cs
         IN  IF AllDigits(body)
             THEN IntV(IF signed /\ Char(cs, 1) = "-" THEN 0 - DigitsVal(body)
                                                     ELSE DigitsVal(body))
             ELSE <<"ValueError">>
    ELSE <<"TypeError">>

\* attributes.py:46-73  _verify_dict_keys(expected_keys, target_dict, strict)
\* Variant running the strict (exact match) comparison.
verify_dict_keys_strict(expected_keys, target_dict, strict) ==
    IF ~IsDict(target_dict)
    THEN <<"msg", "must_be_dict_with_keys", target_dict, expected_keys>>
    ELSE IF ~(expected_keys = Keys(target_dict))
    THEN <<"msg", "keys_failed", expected_keys, Keys(target_dict)>>
    ELSE NoneV

verify_dict_keys(expected_keys, target_dict, strict) ==
    IF ~IsDict(target_dict)
    THEN <<"msg", "must_be_dict_with_keys", target_dict, expected_keys>>
    ELSE IF ~(IF strict THEN expected_keys = Keys(target_dict)
                        ELSE expected_keys \subseteq Keys(target_dict))
    THEN <<"msg", "keys_failed", expected_keys, Keys(target_dict)>>
    ELSE NoneV

\* attributes.py:80-85
validate_values(data, valid_values) ==
    IF data \notin valid_values[2]
    THEN <<"msg", "not_in", data, valid_values>>
    ELSE NoneV

\* attributes.py:108-118
validate_string(data, max_len) ==
    IF ~IsStr(data) THEN <<"msg", "not_a_valid_string", data>>
    ELSE IF max_len # NoneV /\ Len(data[2]) > max_len[2]
    THEN <<"msg", "exceeds_maximum_length", data, max_len>>
    ELSE NoneV

\* attributes.py:480-491
validate_non_negative(data, valid_values) ==
    IF PyInt(data) \in {<<"ValueError">>, <<"TypeError">>}
    THEN <<"msg", "not_an_integer", data>>
    ELSE IF PyInt(data)[2] < 0
    THEN <<"msg", "should_be_non_negative", PyInt(data)>>
    ELSE NoneV

\* attributes.py:517-522  returns the int or raises InvalidInput
convert_to_int(data) ==
    IF PyInt(data) \in {<<"ValueError">>, <<"TypeError">>}
    THEN Raise("InvalidInput", <<"msg", "not_a_integer", data>>)
    ELSE Ret(PyInt(data))

\* attributes.py:580-581
convert_none_to_empty_list(value) ==
    Ret(IF value = NoneV THEN ListV(<< >>) ELSE value)

\* Calling a function object held in a key spec under 'convert_to'.
CallFn(f, arg) ==
    CASE f = FnV("convert_to_int") -> convert_to_int(arg)
      [] f = FnV("convert_none_to_empty_list") -> convert_none_to_empty_list(arg)

\* attributes.py:606-636  the keys of the validators registry
validators ==
    {"type:dict", "type:dict_or_none", "type:dict_or_empty",
     "type:dict_or_nodata", "type:fixed_ips", "type:hostroutes",
     "type:ip_address", "type:ip_address_or_none", "type:ip_pools",
     "type:mac_address", "type:mac_address_or_none", "type:nameservers",
     "type:non_negative", "type:range", "type:regex", "type:regex_or_none",
     "type:string", "type:string_or_none", "type:not_empty_string",
     "type:not_empty_string_or_none", "type:subnet", "type:subnet_list",
     "type:subnet_or_none", "type:subnetpool_id",
     "type:subnetpool_id_or_none", "type:uuid", "type:uuid_or_none",
     "type:uuid_list", "type:values", "type:boolean"}

\* validators[k](data, params), for the tags the schemas of the model use.
CallValidator(k, data, params) ==
    CASE k = "type:string" -> validate_string(data, params)
      [] k = "type:non_negative" -> validate_non_negative(data, params)
      [] k = "type:values" -> validate_values(data, params)

\* Truthiness of a Python value.
TruthyV(v) ==
    CASE v[1] = "none" -> FALSE
      [] v[1] = "bool" -> v[2]
      [] v[1] = "int" -> v[2] # 0
      [] v[1] = "str" -> v[2] # ""
      [] v[1] = "list" -> v[2] # << >>
      [] OTHER -> TRUE

\* key_validator.get(name) on a key spec, a sequence of <<name, value>> entries.
SpecGet(spec, name) ==
    IF \E i \in 1..Len(spec) : spec[i][1] = name
    THEN spec[CHOOSE i \in 1..Len(spec) : spec[i][1] = name][2]
    ELSE NoneV

\* attributes.py:448-449  the keys whose spec has a truthy 'required'.
RequiredKeys(key_specs) ==
    {key_specs[i][1] : i \in {j \in 1..Len(key_specs) :
                                 TruthyV(SpecGet(key_specs[j][2], "required"))}}

\* attributes.py:458-459  [(k, v) for k, v in six.iteritems(key_specs) if k in data]
PresentItems(key_specs, data) ==
    SelectSeq(key_specs, LAMBDA kv : kv[1] \in Keys(data))

\* Variant of lines 415-417 that converts without storing the result.
ItemConvert_discard(key, key_validator, data) ==
    LET conv_func == SpecGet(key_validator, "convert_to") IN
    IF TruthyV(conv_func)
    THEN LET r == CallFn(conv_func, Get(data, key)) IN
         IF IsRaise(r) THEN r ELSE Ret(data)
    ELSE Ret(data)

\* attributes.py:415-417  the converter half of _validate_dict_item:
\* the mutated data, or the exception the converter raised.
ItemConvert(key, key_validator, data) ==
    LET conv_func == SpecGet(key_validator, "convert_to") IN
    IF TruthyV(conv_func)
    THEN LET r == CallFn(conv_func, Get(data, key)) IN
         IF IsRaise(r) THEN r ELSE Ret(SetItem(data, key, r[2]))
    ELSE Ret(data)

\* Index of the first entry of a key spec whose name starts with 'type:', or 0.
FirstType(key_validator) ==
    IF \E i \in 1..Len(key_validator) : StartsWith(key_validator[i][1], "type:")
    THEN CHOOSE i \in 1..Len(key_validator) :
            /\ StartsWith(key_validator[i][1], "type:")
            /\ \A j \in 1..(i - 1) : ~StartsWith(key_validator[j][1], "type:")
    ELSE 0

\* Variant of lines 421-435 without the try/except around the lookup.
ItemValidate_nocatch(key, key_validator, data) ==
    LET i == FirstType(key_validator) IN
    IF i = 0 THEN Ret(NoneV)
    ELSE LET k == key_validator[i][1]
             v == key_validator[i][2]
         IN  IF k \notin validators
             THEN Raise("KeyError", k)
             ELSE Ret(CallValidator(k, Get(data, key), v))

\* Variant of lines 421-435 that takes the last 'type:*' entry, not the first.
ItemValidate_last(key, key_validator, data) ==
    LET ts == {i \in 1..Len(key_validator) :
                 StartsWith(key_validator[i][1], "type:")}
    IN  IF ts = {} THEN Ret(NoneV)
        ELSE LET i == CHOOSE x \in ts : \A y \in ts : y <= x
                 k == key_validator[i][1]
                 v == key_validator[i][2]
             IN  IF k \notin validators
                 THEN Ret(<<"msg", "validator_does_not_exist", k>>)
                 ELSE Ret(CallValidator(k, Get(data, key), v))

\* attributes.py:421-435  the validator half of _validate_dict_item.
ItemValidate(key, key_validator, data) ==
    LET i == FirstType(key_validator) IN
    IF i = 0 THEN Ret(NoneV)
    ELSE LET k == key_validator[i][1]
             v == key_validator[i][2]
         IN  IF k \notin validators
             THEN Ret(<<"msg", "validator_does_not_exist", k>>)
             ELSE Ret(CallValidator(k, Get(data, key), v))

\* attributes.py:439-445
validate_dict_439 ==
    /\ vd_pc = "line439"
    /\ IF ~IsDict(vd_data)
       THEN /\ vd_out' = Ret(<<"msg", "not_a_dictionary", vd_data>>)
            /\ vd_pc' = "done"
       ELSE IF vd_specs = << >>
       THEN /\ vd_out' = Ret(NoneV)
            /\ vd_pc' = "done"
       ELSE /\ vd_pc' = "line448"
            /\ UNCHANGED vd_out
    /\ UNCHANGED <<vd_in, vd_data, vd_specs, vd_todo, vd_log>>

\* attributes.py:448-459  the required-key check, then the list of the loop.
validate_dict_448 ==
    /\ vd_pc = "line448"
    /\ LET required_keys == RequiredKeys(vd_specs)
           msg == IF required_keys # {}
                  THEN verify_dict_keys(required_keys, vd_data, FALSE)
                  ELSE NoneV
       IN  IF msg # NoneV
           THEN /\ vd_out' = Ret(msg)
                /\ vd_pc' = "done"
                /\ UNCHANGED vd_todo
           ELSE /\ vd_todo' = PresentItems(vd_specs, vd_data)
                /\ vd_pc' = "line458"
                /\ UNCHANGED vd_out
    /\ UNCHANGED <<vd_in, vd_data, vd_specs, vd_log>>

\* attributes.py:458  the for statement: next item, or fall off the end.
validate_dict_458 ==
    /\ vd_pc = "line458"
    /\ IF vd_todo = << >>
       THEN /\ vd_out' = Ret(NoneV)
            /\ vd_pc' = "done"
       ELSE /\ vd_pc' = "line415"
            /\ UNCHANGED vd_out
    /\ UNCHANGED <<vd_in, vd_data, vd_specs, vd_todo, vd_log>>

\* attributes.py:415-417  _validate_dict_item: conversion of data[key].
validate_dict_item_415 ==
    /\ vd_pc = "line415"
    /\ LET key == Head(vd_todo)[1]
           key_validator == Head(vd_todo)[2]
           r == ItemConvert(key, key_validator, vd_data)
       IN  /\ vd_log' = IF TruthyV(SpecGet(key_validator, "convert_to"))
                        THEN Append(vd_log, <<"convert", key>>)
                        ELSE vd_log
           /\ IF IsRaise(r)
              THEN /\ vd_out' = r
                   /\ vd_pc' = "done"
                   /\ UNCHANGED vd_data
              ELSE /\ vd_data' = r[2]
                   /\ vd_pc' = "line421"
                   /\ UNCHANGED vd_out
    /\ UNCHANGED <<vd_in, vd_specs, vd_todo>>

\* Variant of lines 460-462 that drops the message and goes on.
validate_dict_item_421_goes_on ==
    /\ vd_pc = "line421"
    /\ LET key == Head(vd_todo)[1]
           key_validator == Head(vd_todo)[2]
           i == FirstType(key_validator)
       IN  /\ vd_log' = IF i # 0
                        THEN Append(vd_log, <<"validate", key, key_validator[i][1]>>)
                        ELSE vd_log
           /\ vd_todo' = Tail(vd_todo)
           /\ vd_pc' = "line458"
           /\ UNCHANGED vd_out
    /\ UNCHANGED <<vd_in, vd_data, vd_specs>>

\* attributes.py:421-435 and 460-462  _validate_dict_item: lookup and call
\* of the validator; _validate_dict returns its message, if any.
validate_dict_item_421 ==
    /\ vd_pc = "line421"
    /\ LET key == Head(vd_todo)[1]
           key_validator == Head(vd_todo)[2]
           i == FirstType(key_validator)
           r == ItemValidate(key, key_validator, vd_data)
       IN  /\ vd_log' = IF i # 0
                        THEN Append(vd_log, <<"validate", key, key_validator[i][1]>>)
                        ELSE vd_log
           /\ IF IsRaise(r) \/ r[2] # NoneV
              THEN /\ vd_out' = r
                   /\ vd_pc' = "done"
                   /\ UNCHANGED vd_todo
              ELSE /\ vd_todo' = Tail(vd_todo)
                   /\ vd_pc' = "line458"
                   /\ UNCHANGED vd_out
    /\ UNCHANGED <<vd_in, vd_data, vd_specs>>

\* The values, payloads and schemas the model validates.
Scalars ==
    {NoneV, StrV("7"), StrV("-1"), StrV("a"), IntV(7)}

DataKeys == {"a", "b"}

DataInputs ==
    {DictV(f) : f \in UNION {[ks -> Scalars] : ks \in SUBSET DataKeys}}
        \cup {NoneV, StrV("a")}

KeySpecs ==
    { <<<<"required", BoolV(TRUE)>>, <<"type:string", NoneV>>>>,
      <<<<"type:non_negative", NoneV>>, <<"convert_to", FnV("convert_to_int")>>>>,
      <<<<"type:bogus", NoneV>>>>,
      <<<<"type:string", NoneV>>, <<"type:bogus", NoneV>>>>,
      <<<<"type:bogus", NoneV>>, <<"type:string", NoneV>>,
        <<"required", BoolV(TRUE)>>>>,
      <<<<"required", BoolV(TRUE)>>>>,
      <<<<"convert_to", FnV("convert_none_to_empty_list")>>,
        <<"type:values", SetV({ListV(<< >>), StrV("7")})>>>>,
      <<<<"required", BoolV(FALSE)>>, <<"type:string", IntV(1)>>>>,
      <<<<"type:non_negative", NoneV>>, <<"type:string", NoneV>>>>,
      <<<<"type:string", NoneV>>, <<"type:non_negative", NoneV>>>>,
      <<<<"required", BoolV(TRUE)>>, <<"convert_to", FnV("convert_to_int")>>,
        <<"type:non_negative", NoneV>>>> }

Schemas ==
    {<< >>}
      \cup {<<<<k, ks>>>> : k \in DataKeys, ks \in KeySpecs}
      \cup {<<<<"a", k1>>, <<"b", k2>>>> : k1 \in KeySpecs, k2 \in KeySpecs}
      \cup {<<<<"b", k1>>, <<"a", k2>>>> : k1 \in KeySpecs, k2 \in KeySpecs}

DictInit ==
    /\ vd_in \in DataInputs
    /\ vd_data = vd_in
    /\ vd_specs \in Schemas
    /\ vd_pc = "line439"
    /\ vd_todo = << >>
    /\ vd_out = Pending
    /\ vd_log = << >>

(***************************************************************************)
(* Part 3 - attributes.py: convert_kvp_str_to_list and                     *)
(* convert_kvp_list_to_dict.                                               *)
(***************************************************************************)

\* Bound of the model: the longest kvp_list passed.
MaxKvpList == 3

\* str.find(c): the first place of character c in str, or 0.
Find(str, c) ==
    IF \E i \in 1..Len(str) : Char(str, i) = c
    THEN CHOOSE i \in 1..Len(str) :
            Char(str, i) = c /\ \A j \in 1..(i - 1) : Char(str, j) # c
    ELSE 0

\* str.split(sep, 1)
Split1(str, sep) ==
    IF Find(str, sep) = 0 THEN <<str>>
    ELSE <<SubSeq(str, 1, Find(str, sep) - 1),
           SubSeq(str, Find(str, sep) + 1, Len(str))>>

\* Variant of lines 555-559 that does not test the key.
convert_kvp_str_to_list_anykey(data) ==
    LET parts == Split1(data, "=")
        kvp == [i \in 1..Len(parts) |-> Strip(parts[i])]
    IN  IF Len(kvp) = 2
        THEN Ret(kvp)
        ELSE Raise("InvalidInput", <<"msg", "not_of_the_form_key_value", data>>)

\* attributes.py:549-559
convert_kvp_str_to_list(data) ==
    LET parts == Split1(data, "=")
        kvp == [i \in 1..Len(parts) |-> Strip(parts[i])]
    IN  IF Len(kvp) = 2 /\ kvp[1] # ""
        THEN Ret(kvp)
        ELSE Raise("InvalidInput", <<"msg", "not_of_the_form_key_value", data>>)

\* list(y) for a set y: the elements once each, in the set's iteration
\* order, which Python leaves to the hash table.
ListsOf(y) ==
    {l \in [1..Cardinality(y) -> y] :
        \A i, j \in 1..Cardinality(y) : i # j => l[i] # l[j]}

\* Variant of lines 575-576 that overwrites instead of accumulating.
kvp_add_overwrite(map, key, value) ==
    [k \in DOMAIN map \cup {key} |-> IF k = key THEN {value} ELSE map[k]]

\* attributes.py:575-576  kvp_map.setdefault(key, set()); kvp_map[key].add(value)
kvp_add(map, key, value) ==
    [k \in DOMAIN map \cup {key} |->
        IF k = key
        THEN (IF key \in DOMAIN map THEN map[key] ELSE {}) \cup {value}
        ELSE map[k]]

\* attributes.py:569-572
convert_kvp_list_to_dict_569 ==
    /\ kvp_pc = "line569"
    /\ IF kvp_list = <<"True">>
       THEN /\ kvp_out' = Ret(DictV(<< >>))
            /\ kvp_pc' = "done"
            /\ UNCHANGED <<kvp_map, kvp_i>>
       ELSE /\ kvp_map' = << >>
            /\ kvp_i' = 1
            /\ kvp_pc' = "line573"
            /\ UNCHANGED kvp_out
    /\ UNCHANGED kvp_list

\* attributes.py:573-576  one turn of the for loop
convert_kvp_list_to_dict_573 ==
    /\ kvp_pc = "line573"
    /\ IF kvp_i > Len(kvp_list)
       THEN /\ kvp_pc' = "line577"
            /\ UNCHANGED <<kvp_map, kvp_i, kvp_out>>
       ELSE LET r == convert_kvp_str_to_list(kvp_list[kvp_i]) IN
            IF IsRaise(r)
            THEN /\ kvp_out' = r
                 /\ kvp_pc' = "done"
                 /\ UNCHANGED <<kvp_map, kvp_i>>
            ELSE /\ kvp_map' = kvp_add(kvp_map, r[2][1], r[2][2])
                 /\ kvp_i' = kvp_i + 1
                 /\ UNCHANGED <<kvp_pc, kvp_out>>
    /\ UNCHANGED kvp_list

\* attributes.py:577  return dict((x, list(y)) for x, y in six.iteritems(kvp_map))
convert_kvp_list_to_dict_577 ==
    /\ kvp_pc = "line577"
    /\ \E d \in [DOMAIN kvp_map -> UNION {ListsOf(kvp_map[k]) : k \in DOMAIN kvp_map}] :
          /\ \A k \in DOMAIN kvp_map : d[k] \in ListsOf(kvp_map[k])
          /\ kvp_out' = Ret(DictV([k \in DOMAIN kvp_map |-> ListV(d[k])]))
    /\ kvp_pc' = "done"
    /\ UNCHANGED <<kvp_list, kvp_map, kvp_i>>

\* The strings the model passes in a kvp_list.
KvpStrings ==
    {"a=1", "a=2", "b=3", " a = 1", "a=", "=1", " =1", "a", "a=1=2", "True"}

RECURSIVE SeqsUpTo(_, _)
SeqsUpTo(S, n) ==
    IF n = 0 THEN {<< >>}
    ELSE SeqsUpTo(S, n - 1) \cup
         {Append(l, x) : l \in {m \in SeqsUpTo(S, n - 1) : Len(m) = n - 1}, x \in S}

KvpInit ==
    /\ kvp_list \in SeqsUpTo(KvpStrings, MaxKvpList)
    /\ kvp_pc = "line569"
    /\ kvp_i = 0
    /\ kvp_map = << >>
    /\ kvp_out = Pending

(***************************************************************************)
(* Part 4 - attributes.py: _validate_no_whitespace, _validate_mac_address  *)
(* and MAC_PATTERN.  netaddr is an external library: valid_mac and EUI are *)
(* modelled for the colon and dash separated dialects.                     *)
(***************************************************************************)

\* attributes.py:597  HEX_ELEM = '[0-9A-Fa-f]'
HEX_ELEM ==
    Digits \cup {"a", "b", "c", "d", "e", "f", "A", "B", "C", "D", "E", "F"}

HexVal(c) ==
    CASE c \in Digits -> DigitVal(c)
      [] c \in {"a", "A"} -> 10 [] c \in {"b", "B"} -> 11
      [] c \in {"c", "C"} -> 12 [] c \in {"d", "D"} -> 13
      [] c \in {"e", "E"} -> 14 [] c \in {"f", "F"} -> 15

\* str.split(sep)
RECURSIVE SplitAll(_, _)
SplitAll(str, sep) ==
    IF Find(str, sep) = 0 THEN <<str>>
    ELSE <<SubSeq(str, 1, Find(str, sep) - 1)>>
            \o SplitAll(SubSeq(str, Find(str, sep) + 1, Len(str)), sep)

\* attributes.py:161  re.search(r'\s', data)
HasWhitespace(str) == \E i \in 1..Len(str) : Char(str, i) \in Whitespace

\* attributes.py:159-165  returns data or raises InvalidInput; a non-string
\* makes re.search raise TypeError.
validate_no_whitespace(data) ==
    IF ~IsStr(data) THEN Raise("TypeError", data)
    ELSE IF HasWhitespace(data[2])
    THEN Raise("InvalidInput", <<"msg", "contains_whitespace", data>>)
    ELSE Ret(data)

\* Six groups of one or two hex digits.
IsOctets(groups) ==
    /\ Len(groups) = 6
    /\ \A i \in 1..6 :
          /\ Len(groups[i]) \in {1, 2}
          /\ \A j \in 1..Len(groups[i]) : Char(groups[i], j) \in HEX_ELEM

\* netaddr.valid_mac(addr) for the 'xx:xx:xx:xx:xx:xx' and
\* 'xx-xx-xx-xx-xx-xx' dialects.
valid_mac(addr) ==
    IsOctets(SplitAll(addr, ":")) \/ IsOctets(SplitAll(addr, "-"))

OctetVal(g) ==
    IF Len(g) = 1 THEN HexVal(Char(g, 1))
    ELSE HexVal(Char(g, 1)) * 16 + HexVal(Char(g, 2))

\* netaddr.EUI(addr): the six octets of a valid address; two EUIs are equal
\* when their octets are.
EUI(addr) ==
    LET groups == IF IsOctets(SplitAll(addr, ":")) THEN SplitAll(addr, ":")
                  ELSE SplitAll(addr, "-")
    IN  [i \in 1..6 |-> OctetVal(groups[i])]

\* neutron_lib.common.constants.INVALID_MAC_ADDRESSES
INVALID_MAC_ADDRESSES == {"00:00:00:00:00:00", "FF:FF:FF:FF:FF:FF"}

\* attributes.py:603  MAC_PATTERN = "^%s[aceACE02468](:%s{2}){5}$"
MatchesMacPattern(str) ==
    /\ Len(str) = 17
    /\ Char(str, 1) \in HEX_ELEM
    /\ Char(str, 2) \in {"a", "c", "e", "A", "C", "E", "0", "2", "4", "6", "8"}
    /\ \A n \in 1..5 :
          /\ Char(str, 3 * n) = ":"
          /\ Char(str, 3 * n + 1) \in HEX_ELEM
          /\ Char(str, 3 * n + 2) \in HEX_ELEM

\* attributes.py:168-183  _validate_mac_address(data)
validate_mac_address(data) ==
    LET checked == validate_no_whitespace(data)
        valid_mac1 == IF IsRaise(checked) THEN FALSE ELSE valid_mac(checked[2][2])
        valid_mac2 == IF valid_mac1
                      THEN EUI(data[2]) \notin {EUI(a) : a \in INVALID_MAC_ADDRESSES}
                      ELSE FALSE
    IN  IF ~valid_mac2
        THEN Ret(<<"msg", "not_a_valid_mac_address", data>>)
        ELSE Ret(NoneV)

\* The call of _validate_mac_address on the input.
validate_mac_address_168 ==
    /\ mac_out = Pending
    /\ mac_out' = validate_mac_address(mac_data)
    /\ UNCHANGED mac_data

\* The addresses the model validates: a first octet and the rest.
MacFirstOctets == {"00", "01", "02", "fa", "fb", "FF", "ff", "0"}

MacRests ==
    {":00:00:00:00:00", ":FF:FF:FF:FF:FF", ":ff:ff:ff:ff:ff",
     ":16:3e:12:34:56", ":00:5e:00:00:00", ":16:3e:12:34",
     ":16:3e:12:34:5g", ":16:3e:12:34: 56", "-16-3e-12-34-56"}

MacInputs ==
    {StrV(a \o b) : a \in MacFirstOctets, b \in MacRests} \cup {NoneV, StrV("")}

MacInit ==
    /\ mac_data \in MacInputs
    /\ mac_out = Pending

(***************************************************************************)
(* Part 5 - attributes.py: _validate_subnet.  netaddr.IPNetwork is an      *)
(* external library, modelled for IPv4 addresses in dotted decimal form    *)
(* with an optional '/prefix'.                                             *)
(***************************************************************************)

DigitChar(d) ==
    CASE d = 0 -> "0" [] d = 1 -> "1" [] d = 2 -> "2" [] d = 3 -> "3"
      [] d = 4 -> "4" [] d = 5 -> "5" [] d = 6 -> "6" [] d = 7 -> "7"
      [] d = 8 -> "8" [] d = 9 -> "9"

\* str(n) for an integer n >= 0
RECURSIVE DecStr(_)
DecStr(n) == IF n < 10 THEN DigitChar(n) ELSE DecStr(n \div 10) \o DigitChar(n % 10)

RECURSIVE Pow2(_)
Pow2(n) == IF n = 0 THEN 1 ELSE 2 * Pow2(n - 1)

\* A decimal number of at most three digits, at most max.
IsDecimalUpTo(str, max) ==
    AllDigits(str) /\ Len(str) <= 3 /\ DigitsVal(str) <= max

\* netaddr.IPNetwork(addr): <<"net", version, octets, prefixlen>>, a partial
\* address being padded with zero octets and a missing prefix being 32; or
\* the AddrFormatError it raises.
IPNetwork(addr) ==
    LET parts == Split1(addr, "/")
        groups == SplitAll(parts[1], ".")
        okAddr == /\ Len(groups) \in 1..4
                  /\ \A i \in 1..Len(groups) : IsDecimalUpTo(groups[i], 255)
        okPrefix == Len(parts) = 2 => IsDecimalUpTo(parts[2], 32)
    IN  IF okAddr /\ okPrefix
        THEN <<"net", 4,
               [i \in 1..4 |-> IF i <= Len(groups) THEN DigitsVal(groups[i]) ELSE 0],
               IF Len(parts) = 2 THEN DigitsVal(parts[2]) ELSE 32>>
        ELSE Raise("AddrFormatError", addr)

DottedQuad(octets) ==
    DecStr(octets[1]) \o "." \o DecStr(octets[2]) \o "." \o
    DecStr(octets[3]) \o "." \o DecStr(octets[4])

\* str(net)
NetStr(net) == DottedQuad(net[3]) \o "/" \o DecStr(net[4])

\* net.cidr: the network with the host bits cleared.
NetCidr(net) ==
    LET kept(i) == IF net[4] >= 8 * i THEN 8
                   ELSE IF net[4] <= 8 * (i - 1) THEN 0
                   ELSE net[4] - 8 * (i - 1)
        masked == [i \in 1..4 |-> net[3][i] - (net[3][i] % Pow2(8 - kept(i)))]
    IN  DottedQuad(masked) \o "/" \o DecStr(net[4])

\* Variant of lines 318-332 without the try/except: exceptions propagate.
validate_subnet_nocatch(data) ==
    LET checked == validate_no_whitespace(data)
        net == IF IsRaise(checked) THEN checked ELSE IPNetwork(checked[2][2])
    IN  IF IsRaise(net) THEN net
        ELSE IF Find(data[2], "/") = 0 \/ (net[2] = 4 /\ NetStr(net) # data[2])
        THEN Ret(<<"msg", "not_a_recognized_cidr", data, NetCidr(net)>>)
        ELSE Ret(NoneV)

\* attributes.py:318-332  _validate_subnet(data)
validate_subnet(data) ==
    LET checked == validate_no_whitespace(data)
        net == IF IsRaise(checked) THEN checked ELSE IPNetwork(checked[2][2])
    IN  IF IsRaise(net)
        THEN Ret(<<"msg", "not_a_valid_ip_subnet", data>>)
        ELSE IF Find(data[2], "/") = 0 \/ (net[2] = 4 /\ NetStr(net) # data[2])
        THEN Ret(<<"msg", "not_a_recognized_cidr", data, NetCidr(net)>>)
        ELSE Ret(NoneV)

\* The call of _validate_subnet on the input.
validate_subnet_318 ==
    /\ sn_out = Pending
    /\ sn_out' = validate_subnet(sn_data)
    /\ UNCHANGED <<sn_data, ws_out>>

\* A direct call of _validate_no_whitespace on the same input.
validate_no_whitespace_159 ==
    /\ ws_out = Pending
    /\ ws_out' = validate_no_whitespace(sn_data)
    /\ UNCHANGED <<sn_data, sn_out>>

\* The subnets the model validates.
SubnetInputs ==
    {StrV(x) : x \in {"10.0.0.0/24", "10.0.0.1/24", "10.0.0.0", "10.0/16",
                      "10.0.0.0/33", "10.0.0.256/24", "bogus", "",
                      "10.0.0.0/24 ", "10.0.0.0 /24", " 10.0.0.0/24",
                      "10.0.0.0\t", "10.0. 0.1/24"}}
       \cup {NoneV}

SubnetInit ==
    /\ sn_data \in SubnetInputs
    /\ sn_out = Pending
    /\ ws_out = Pending

\* Placeholders for the other parts while the policy wrapper runs.
KvpIdle ==
    /\ kvp_list = << >> /\ kvp_pc = "off" /\ kvp_i = 0
    /\ kvp_map = << >> /\ kvp_out = Pending
VdIdle ==
    /\ vd_in = << >> /\ vd_data = << >> /\ vd_specs = << >> /\ vd_pc = "off"
    /\ vd_todo = << >> /\ vd_out = Pending /\ vd_log = << >>
MacIdle ==
    /\ mac_data = NoneV /\ mac_out = <<"off">>
SubnetIdle ==
    /\ sn_data = NoneV /\ sn_out = <<"off">> /\ ws_out = <<"off">>

Init == PolicyInit /\ KvpIdle /\ VdIdle /\ MacIdle /\ SubnetIdle

notPolicy == <<kvpVars, vdVars, macVars, snVars>>

Next ==
    \/ \E t \in Threads : Call(t) /\ UNCHANGED notPolicy
    \/ \E t \in Threads : reset31(t) /\ UNCHANGED notPolicy
    \/ \E t \in Threads : reset32(t) /\ UNCHANGED notPolicy
    \/ \E t \in Threads : reset33(t) /\ UNCHANGED notPolicy
    \/ \E t \in Threads : init40(t) /\ UNCHANGED notPolicy
    \/ \E t \in Threads : init41(t) /\ UNCHANGED notPolicy
    \/ \E t \in Threads : init42(t) /\ UNCHANGED notPolicy
    \/ \E t \in Threads : check55(t) /\ UNCHANGED notPolicy
    \/ \E t \in Threads : check56(t) /\ UNCHANGED notPolicy
    \/ \E t \in Threads : check58(t) /\ UNCHANGED notPolicy
    \/ \E t \in Threads : Return(t) /\ UNCHANGED notPolicy

\* The policy wrapper at rest while the attribute functions run.
PolicyIdle ==
    /\ PolicyInit
    /\ useLock = TRUE
    /\ policyFile = {}

notDict == <<policyVars, kvpVars, macVars, snVars>>

NextDict ==
    \/ validate_dict_439 /\ UNCHANGED notDict
    \/ validate_dict_448 /\ UNCHANGED notDict
    \/ validate_dict_458 /\ UNCHANGED notDict
    \/ validate_dict_item_415 /\ UNCHANGED notDict
    \/ validate_dict_item_421 /\ UNCHANGED notDict

\* One call of _validate_dict(data, key_specs) on each payload and schema.
InitDict == PolicyIdle /\ DictInit /\ KvpIdle /\ MacIdle /\ SubnetIdle
SpecDict == InitDict /\ [][NextDict]_vars

notKvp == <<policyVars, vdVars, macVars, snVars>>

NextKvp ==
    \/ convert_kvp_list_to_dict_569 /\ UNCHANGED notKvp
    \/ convert_kvp_list_to_dict_573 /\ UNCHANGED notKvp
    \/ convert_kvp_list_to_dict_577 /\ UNCHANGED notKvp

\* One call of convert_kvp_list_to_dict on each list of the model.
InitKvp == PolicyIdle /\ KvpInit /\ VdIdle /\ MacIdle /\ SubnetIdle
SpecKvp == InitKvp /\ [][NextKvp]_vars

notMac == <<policyVars, vdVars, kvpVars, snVars>>

NextMac ==
    \/ validate_mac_address_168 /\ UNCHANGED notMac

\* One call of _validate_mac_address on each address of the model.
InitMac == PolicyIdle /\ MacInit /\ VdIdle /\ KvpIdle /\ SubnetIdle
SpecMac == InitMac /\ [][NextMac]_vars

notAddr == <<policyVars, vdVars, kvpVars>>

NextAddr ==
    \/ validate_mac_address_168 /\ UNCHANGED <<notAddr, snVars>>
    \/ validate_subnet_318 /\ UNCHANGED <<notAddr, macVars>>
    \/ validate_no_whitespace_159 /\ UNCHANGED <<notAddr, macVars>>

\* One call each of _validate_mac_address, _validate_subnet and
\* _validate_no_whitespace on the addresses and subnets of the model.
InitAddr == PolicyIdle /\ MacInit /\ SubnetInit /\ VdIdle /\ KvpIdle
SpecAddr == InitAddr /\ [][NextAddr]_vars

\* Callers with or without a lock.
Spec == Init /\ [][Next]_vars

\* Callers with or without a lock, the policy files defining both rules.
ThreadsInit == Init /\ policyFile = RuleNames
SpecThreads == ThreadsInit /\ [][Next]_vars

\* Sequential execution: every call is serialized.
SeqInit == Init /\ useLock = TRUE
SpecSeq == SeqInit /\ [][Next]_vars

(***************************************************************************)
(* Claims about the policy wrapper.                                        *)
(***************************************************************************)

Returned(t, o) == pc[t] = "done" /\ op[t] = o

\* C1: in sequential execution init() and reset() are idempotent: init()
\* with a live engine builds nothing, reloads nothing and keeps the same
\* instance; reset() with no instance does nothing; no call raises; after
\* init() exactly one engine is active and after reset() none is.
C1_InitResetIdempotent ==
    \A t \in Threads :
        /\ op[t] \in {"init", "reset", "refresh"} => pc[t] # "raised"
        /\ Returned(t, "init") /\ entry[t].enf # None =>
              /\ POLICY_ENFORCER = entry[t].enf
              /\ Len(engines) = entry[t].built
              /\ TotalLoads = entry[t].loads
        /\ Returned(t, "reset") /\ entry[t].enf = None =>
              /\ Len(engines) = entry[t].built
              /\ TotalLoads = entry[t].loads
              /\ ActiveEngines = entry[t].active
        /\ Returned(t, "init") =>
              /\ POLICY_ENFORCER # None
              /\ ActiveEngines = {POLICY_ENFORCER}
        /\ Returned(t, "reset") =>
              /\ POLICY_ENFORCER = None
              /\ ActiveEngines = {}

\* A second init() returned while an engine was live, after an earlier
\* engine had been reset.
C1_Witness ==
    \E t \in Threads :
        /\ Returned(t, "init")
        /\ entry[t].enf # None
        /\ POLICY_ENFORCER = entry[t].enf
        /\ \E e \in DOMAIN engines : engines[e].cleared

\* C2: refresh() reloads unconditionally: when it returns, the engine that
\* was referenced before (if any) has been cleared and the global references
\* an engine built during this call, distinct from the previous one, with
\* its rules loaded.
C2_RefreshReloads ==
    \A t \in Threads :
        /\ op[t] = "refresh" => pc[t] # "raised"
        /\ Returned(t, "refresh") =>
              /\ entry[t].enf # None => engines[entry[t].enf].cleared
              /\ POLICY_ENFORCER # None
              /\ POLICY_ENFORCER # entry[t].enf
              /\ POLICY_ENFORCER > entry[t].built
              /\ ~engines[POLICY_ENFORCER].cleared
              /\ engines[POLICY_ENFORCER].loads = 1
              /\ engines[POLICY_ENFORCER].rules = policyFile
              /\ Len(engines) = entry[t].built + 1

\* refresh() returned after replacing a live engine.
C2_Witness ==
    \E t \in Threads :
        /\ Returned(t, "refresh")
        /\ entry[t].enf # None
        /\ engines[entry[t].enf].cleared
        /\ POLICY_ENFORCER = entry[t].enf + 1

\* The outcome check_is_admin / check_is_advsvc must have for rule name r.
CheckOutcome(t, r) ==
    /\ POLICY_ENFORCER # None
    /\ engines[POLICY_ENFORCER].loads >= 1
    /\ ~engines[POLICY_ENFORCER].cleared
    /\ IF r \notin engines[POLICY_ENFORCER].rules
       THEN /\ retval[t] = FALSE
            /\ enforceCall[t] = NoCall
       ELSE /\ enforceCall[t].made
            /\ enforceCall[t].engine = POLICY_ENFORCER
            /\ enforceCall[t].rule = r
            /\ enforceCall[t].creds = to_dict(context[t])
            /\ enforceCall[t].target = to_dict(context[t])
            /\ retval[t] = enforceCall[t].result

\* C3: in any sequential state check_is_admin / check_is_advsvc first make
\* sure an engine is initialized, then return False without raising and
\* without calling enforce when 'context_is_admin' / 'context_is_advsvc' is
\* not among the loaded rules, and otherwise return what enforce gives for
\* that rule with the context's credentials as both subject and target.
C3_CheckAbsentRuleFalse ==
    \A t \in Threads :
        /\ op[t] \in {"check_is_admin", "check_is_advsvc"} => pc[t] # "raised"
        /\ Returned(t, "check_is_admin") => CheckOutcome(t, "context_is_admin")
        /\ Returned(t, "check_is_advsvc") => CheckOutcome(t, "context_is_advsvc")

\* check_is_advsvc returned False right after a reset(), its rule absent
\* while the admin rule is present.
C3_Witness ==
    \E t \in Threads :
        /\ Returned(t, "check_is_advsvc")
        /\ entry[t].enf = None
        /\ entry[t].built >= 1
        /\ engines[POLICY_ENFORCER].rules = {"context_is_admin"}
        /\ retval[t] = FALSE
        /\ enforceCall[t] = NoCall

\* C4: init/reset/refresh are not synchronized.  When every call is
\* serialized by one external lock no thread ever finds, after its own
\* init() returned, a missing, partially initialized or cleared engine, and
\* no call raises; without the lock such observations are reachable (the
\* witness).
C4_LockedIsSound ==
    useLock => /\ seen = {}
               /\ \A t \in Threads : pc[t] # "raised"

\* Without a lock all three unsound observations have been made.
C4_Witness ==
    /\ ~useLock
    /\ seen = {"partial", "cleared", "null"}

(***************************************************************************)
(* Claims about _validate_dict.                                            *)
(***************************************************************************)

\* The call of _validate_dict has returned or raised.
DictDone == vd_pc = "done"

\* The call was given a dict and a non-empty schema.
DictCall == vd_pc # "off" /\ IsDict(vd_in) /\ vd_specs # << >>

MissingRequired == RequiredKeys(vd_specs) \ Keys(vd_in)

IsMsgReturn(o) == o[1] = "return" /\ o[2][1] = "msg"
IsKeysMsg(o) == IsMsgReturn(o) /\ o[2][2] = "keys_failed"

\* What _validate_dict_item gives for the key at place i of the schema when
\* run on the caller's data: the raise of its converter, or the return of
\* its validator on the converted value.
ItemOutcome(i) ==
    LET key == vd_specs[i][1]
        kv == vd_specs[i][2]
        c == ItemConvert(key, kv, vd_in)
    IN  IF IsRaise(c) THEN c ELSE ItemValidate(key, kv, c[2])

\* The places of the schema whose key is in the caller's data, in order.
PresentPlaces == {i \in 1..Len(vd_specs) : vd_specs[i][1] \in Keys(vd_in)}

\* The key an event of the log is about.
LogKey(e) == e[2]

\* C5: the required-key check precedes per-field validation: when data is a
\* dict and a key marked required is absent, the call returns the
\* missing-keys message whatever the present keys hold, no converter or
\* validator having run; being a subset check, it never fails when every
\* required key is present, whatever other keys data has.
C5_RequiredCheckFirst ==
    /\ DictCall /\ MissingRequired # {} =>
         /\ vd_log = << >>
         /\ vd_data = vd_in
         /\ DictDone =>
              vd_out = Ret(<<"msg", "keys_failed", RequiredKeys(vd_specs),
                             Keys(vd_in)>>)
    /\ DictCall /\ DictDone /\ MissingRequired = {} => ~IsKeysMsg(vd_out)

\* A required key is missing while a present key would fail its own
\* validation and another would be converted.
C5_Witness ==
    /\ DictCall /\ DictDone
    /\ MissingRequired # {}
    /\ IsKeysMsg(vd_out)
    /\ \E i \in PresentPlaces :
          /\ ItemOutcome(i) # Ret(NoneV)
          /\ TruthyV(SpecGet(vd_specs[i][2], "convert_to"))

\* C6: validation is fail-fast over the keys present in both data and
\* key_specs: they are processed one at a time in the order of key_specs;
\* at the first key whose validation returns a message the call returns
\* that message, no later key being converted or validated; the call
\* returns None exactly when every required key is present and every such
\* key is converted and validated without a message.
C6_FailFast ==
    DictCall =>
      LET places == PresentPlaces
          failing == {i \in places : ItemOutcome(i) # Ret(NoneV)}
      IN  \* the log follows the order of key_specs, convert before validate
          /\ \A m, n \in 1..Len(vd_log) :
                m < n =>
                  \E i, j \in places :
                     /\ vd_specs[i][1] = LogKey(vd_log[m])
                     /\ vd_specs[j][1] = LogKey(vd_log[n])
                     /\ i <= j
                     /\ (i = j => vd_log[m][1] = "convert" /\ vd_log[n][1] = "validate")
          \* no key later than a failing key is converted or validated
          /\ \A i \in failing, j \in places, n \in 1..Len(vd_log) :
                i < j => LogKey(vd_log[n]) # vd_specs[j][1]
          /\ \A i \in failing, j \in places :
                i < j => Get(vd_data, vd_specs[j][1]) = Get(vd_in, vd_specs[j][1])
          \* the outcome is that of the first failing key
          /\ DictDone /\ MissingRequired = {} /\ failing # {} =>
                vd_out = ItemOutcome(CHOOSE i \in failing : \A j \in failing : i <= j)
          /\ DictDone =>
                (vd_out = Ret(NoneV) <=> (MissingRequired = {} /\ failing = {}))

\* The first of two present keys fails and the call returns its message;
\* the second, which has a converter and would fail too, is left alone.
C6_Witness ==
    /\ DictCall /\ DictDone
    /\ MissingRequired = {}
    /\ PresentPlaces = {1, 2}
    /\ IsMsgReturn(ItemOutcome(1))
    /\ vd_out = ItemOutcome(1)
    /\ ItemOutcome(2) # Ret(NoneV)
    /\ TruthyV(SpecGet(vd_specs[2][2], "convert_to"))
    /\ Len(vd_log) >= 1

\* A key spec holds some 'type:*' entry whose tag is not registered.
HasUnknownType(kv) ==
    \E i \in 1..Len(kv) : StartsWith(kv[i][1], "type:") /\ kv[i][1] \notin validators

\* The first 'type:*' entry of a key spec has a tag that is not registered.
FirstTypeUnknown(kv) ==
    FirstType(kv) # 0 /\ kv[FirstType(kv)][1] \notin validators

\* C7 as stated: whenever the dict holds a key whose spec has any 'type:*'
\* entry with an unregistered tag, the call reports a failure: it never
\* returns None (and never raises a lookup error).
C7_AnyUnknownTagFails ==
    DictCall /\ DictDone
      /\ (\E i \in PresentPlaces : HasUnknownType(vd_specs[i][2]))
    => /\ vd_out # Ret(NoneV)
       /\ ~(IsRaise(vd_out) /\ vd_out[2] = "KeyError")

\* C7 (amended): whenever the dict holds a key whose spec's first 'type:*'
\* entry has an unregistered tag, the call never returns None and never
\* raises a lookup error: it returns an error message, unless a converter
\* raised the invalid-input error before; and when that key is reached its
\* message is the one naming the missing validator.
C7_FirstUnknownTagFails ==
    DictCall /\ DictDone
      /\ (\E i \in PresentPlaces : FirstTypeUnknown(vd_specs[i][2]))
    => /\ vd_out # Ret(NoneV)
       /\ IsRaise(vd_out) =>
            /\ vd_out[2] = "InvalidInput"
            /\ vd_log # << >> /\ vd_log[Len(vd_log)][1] = "convert"
       /\ ~IsRaise(vd_out) => IsMsgReturn(vd_out)
       /\ \A n \in 1..Len(vd_log) :
            vd_log[n][1] = "validate" /\ vd_log[n][3] \notin validators =>
                vd_out = Ret(<<"msg", "validator_does_not_exist", vd_log[n][3]>>)

\* An unregistered tag placed before a registered one is looked up and the
\* call returns the message naming it.
C7_Witness ==
    /\ DictCall /\ DictDone
    /\ \E i \in PresentPlaces :
          /\ FirstTypeUnknown(vd_specs[i][2])
          /\ Len(vd_specs[i][2]) > 1
          /\ vd_out = Ret(<<"msg", "validator_does_not_exist", "type:bogus">>)

\* The spec key_specs holds for a key.
SpecOf(key) == vd_specs[CHOOSE i \in 1..Len(vd_specs) : vd_specs[i][1] = key][2]

\* The 'type:*' entries of a key spec.
TypeEntries(kv) == {i \in 1..Len(kv) : StartsWith(kv[i][1], "type:")}

\* The last event of the log is the validation of some key.
LastIsValidate == vd_log # << >> /\ vd_log[Len(vd_log)][1] = "validate"

\* C12: per-key validation consults a single 'type:*' entry.  Every
\* validation that ran was of the first 'type:*' entry of the key's spec, on
\* the value the converter (if any) had put in data before, with that
\* entry's parameters, and its result was what _validate_dict_item returned:
\* the message the call ended with, or None when the call went on; the
\* other 'type:*' entries play no part, and a key whose spec has no 'type:*'
\* entry is never validated and never yields a message.
C12_FirstTypeOnly ==
    DictCall =>
      /\ \A n \in 1..Len(vd_log) :
            vd_log[n][1] = "validate" =>
              LET key == vd_log[n][2]
                  kv == SpecOf(key)
                  i == FirstType(kv)
                  conv_func == SpecGet(kv, "convert_to")
                  value == Get(vd_data, key)
              IN  /\ i # 0
                  /\ vd_log[n][3] = kv[i][1]
                  /\ \A m \in 1..Len(vd_log) :
                        m # n => ~(vd_log[m][1] = "validate" /\ vd_log[m][2] = key)
                  /\ TruthyV(conv_func) =>
                        /\ \E m \in 1..(n - 1) : vd_log[m] = <<"convert", key>>
                        /\ Ret(value) = CallFn(conv_func, Get(vd_in, key))
                  /\ ~TruthyV(conv_func) => value = Get(vd_in, key)
                  /\ kv[i][1] \in validators =>
                        LET res == CallValidator(kv[i][1], value, kv[i][2]) IN
                        IF n = Len(vd_log) /\ DictDone /\ vd_out # Ret(NoneV)
                        THEN vd_out = Ret(res)
                        ELSE res = NoneV
      /\ DictDone /\ IsMsgReturn(vd_out) /\ ~IsKeysMsg(vd_out) => LastIsValidate

\* The call returned None although the second 'type:*' entry of one key's
\* spec rejects the key's value, and although the validator of the other
\* key rejects the value that key had before its converter ran.
C12_Witness ==
    /\ DictCall /\ DictDone
    /\ vd_out = Ret(NoneV)
    /\ Len(vd_specs) = 2
    /\ \E p, q \in PresentPlaces :
          LET kp == vd_specs[p][2]
              kq == vd_specs[q][2]
          IN  /\ Cardinality(TypeEntries(kp)) = 2
              /\ \A i \in TypeEntries(kp) : kp[i][1] \in validators
              /\ \E i \in TypeEntries(kp) :
                    CallValidator(kp[i][1], Get(vd_data, vd_specs[p][1]), kp[i][2]) # NoneV
              /\ TruthyV(SpecGet(kq, "convert_to"))
              /\ FirstType(kq) # 0
              /\ CallValidator(kq[FirstType(kq)][1], Get(vd_in, vd_specs[q][1]),
                               kq[FirstType(kq)][2]) # NoneV
    /\ Len(SelectSeq(vd_log, LAMBDA e : e[1] = "validate")) = 2

\* The key has a spec in key_specs.
InSpecs(key) == \E i \in 1..Len(vd_specs) : vd_specs[i][1] = key

\* The converter of the key was called.
Reached(key) == \E m \in 1..Len(vd_log) : vd_log[m] = <<"convert", key>>

KvpDone == kvp_pc = "done"

\* How many times character c occurs in str.
CountChar(str, c) == Cardinality({i \in 1..Len(str) : Char(str, i) = c})

\* Some character that is not whitespace stands before every '=' of str.
HasKey(str) ==
    \E i \in 1..Len(str) :
        /\ Char(str, i) \notin Whitespace \cup {"="}
        /\ \A j \in 1..(i - 1) : Char(str, j) # "="

\* Exactly one '=', with a non-blank key.
ExactlyOneEq(str) == CountChar(str, "=") = 1 /\ HasKey(str)

\* At least one '=', with a non-blank key before the first.
AtLeastOneEq(str) == CountChar(str, "=") >= 1 /\ HasKey(str)

KvpKey(str) == convert_kvp_str_to_list(str)[2][1]
KvpValue(str) == convert_kvp_str_to_list(str)[2][2]

KvpKeys == {KvpKey(kvp_list[i]) : i \in 1..Len(kvp_list)}
KvpValues(k) ==
    {KvpValue(kvp_list[i]) : i \in {j \in 1..Len(kvp_list) : KvpKey(kvp_list[j]) = k}}

\* The distinct values of key k among the first n entries, in the order of
\* their first insertion.
RECURSIVE FirstInserted(_, _)
FirstInserted(k, n) ==
    IF n = 0 THEN << >>
    ELSE LET before == FirstInserted(k, n - 1)
             str == kvp_list[n]
         IN  IF KvpKey(str) = k /\ \A i \in 1..Len(before) : before[i] # KvpValue(str)
             THEN Append(before, KvpValue(str))
             ELSE before

MacDone == mac_out[1] \in {"return", "raise"}

\* A colon-hex MAC: six groups of two hex digits separated by colons.
ColonHexMac(v) ==
    /\ IsStr(v)
    /\ Len(v[2]) = 17
    /\ \A i \in 1..17 :
          IF i \in {3, 6, 9, 12, 15} THEN Char(v[2], i) = ":"
          ELSE Char(v[2], i) \in HEX_ELEM

\* The low-order bit of the first octet is set.
MulticastBit(v) == HexVal(Char(v[2], 2)) % 2 = 1

Blacklisted(v) == EUI(v[2]) \in {EUI(a) : a \in INVALID_MAC_ADDRESSES}

\* C10: validate_mac_address returns an error message for every
\* well-formed colon-hex MAC whose first octet has its low-order bit set
\* and for every blacklisted address, and returns None for every
\* well-formed unicast address that is not blacklisted.
C10_RejectsMulticast ==
    MacDone /\ ColonHexMac(mac_data) =>
        IF MulticastBit(mac_data) \/ Blacklisted(mac_data)
        THEN IsMsgReturn(mac_out)
        ELSE mac_out = Ret(NoneV)

(***************************************************************************)
(* Claims about whitespace in MAC addresses and subnets.                   *)
(***************************************************************************)

SubnetDone == sn_out[1] \in {"return", "raise"}
HelperDone == ws_out[1] \in {"return", "raise"}

\* The input is a string holding a whitespace character.
WithWhitespace(v) == IsStr(v) /\ HasWhitespace(v[2])

WhitespaceError(v) == Raise("InvalidInput", <<"msg", "contains_whitespace", v>>)

\* C11 as stated: for every input string containing whitespace
\* validate_mac_address and validate_subnet raise the invalid-input error
\* of _validate_no_whitespace instead of returning an error string.
C11_WhitespaceRaises ==
    /\ MacDone /\ WithWhitespace(mac_data) => mac_out = WhitespaceError(mac_data)
    /\ SubnetDone /\ WithWhitespace(sn_data) => sn_out = WhitespaceError(sn_data)

\* C11 (amended): _validate_no_whitespace raises the invalid-input error on
\* every string containing whitespace, and the MAC-address and subnet
\* validators catch it: on such a string they return their own error
\* string and never raise.
C11_WhitespaceReturnsMessage ==
    /\ HelperDone /\ WithWhitespace(sn_data) => ws_out = WhitespaceError(sn_data)
    /\ HelperDone /\ IsStr(sn_data) /\ ~HasWhitespace(sn_data[2]) => ws_out = Ret(sn_data)
    /\ MacDone /\ WithWhitespace(mac_data) =>
          mac_out = Ret(<<"msg", "not_a_valid_mac_address", mac_data>>)
    /\ SubnetDone /\ WithWhitespace(sn_data) =>
          sn_out = Ret(<<"msg", "not_a_valid_ip_subnet", sn_data>>)
    /\ MacDone => ~IsRaise(mac_out)
    /\ SubnetDone => ~IsRaise(sn_out)

\* Both validators returned a message for an address and a subnet that are
\* valid but for one whitespace character, which the helper raised on.
C11_Witness ==
    /\ MacDone /\ SubnetDone /\ HelperDone
    /\ mac_data = StrV("fa:16:3e:12:34: 56")
    /\ sn_data = StrV("10.0.0.0/24 ")
    /\ IsMsgReturn(mac_out)
    /\ IsMsgReturn(sn_out)
    /\ IsRaise(ws_out)

====
